---- MODULE Spec2Model ----
(***************************************************************************)
(* Model of the RESP key-value server in src/main.rs: process start-up,    *)
(* the replica handshake against a primary, the accept loop, and the       *)
(* per-connection sessions sharing one store behind a tokio Mutex.         *)
(***************************************************************************)
EXTENDS Integers, Sequences, FiniteSets, TLC

\* ------------------------------------------------------------------ bounds
MaxSessions == 2      \* connections the accept loop hands out
MaxReqs     == 3      \* frames the clients send in total
MaxTime     == 2      \* ticks of the monotonic clock (1 tick = 1 ms)
MaxLines    == 3      \* lines a peer puts on a stream before it closes

Sessions == 1..MaxSessions
Keys     == {"k1", "k2"}

\* ------------------------------------------------------------- data types
\* Option<T>
None    == [some |-> FALSE]
Some(x) == [some |-> TRUE, v |-> x]

\* enum DataType
SimpleString(s) == [type |-> "SimpleString", val |-> s]
SimpleError(s)  == [type |-> "SimpleError", val |-> s]
Integer(s)      == [type |-> "Integer", val |-> s]
BulkString(s)   == [type |-> "BulkString", val |-> s]
Array(es)       == [type |-> "Array", elems |-> es]

\* struct StoreValue
StoreValue(v, e) == [value |-> v, expiry |-> e]

\* Config::default()
DEFAULT_PORT       == "6379"
replication_id     == "8371b4fb1155b71f4a04d3e1bc3e18c4a990aeeb"
replication_offset == 0

\* the wire bytes the send_* helpers write, one record per write_all
send_simple_string(msg) == [wire |-> "+", text |-> msg]
send_bulk_string(msg)   == [wire |-> "$", text |-> msg]
send_null               == [wire |-> "$-1", text |-> ""]
NoReply                 == [wire |-> "", text |-> ""]

\* send_array: the header and then one bulk string per element; any other
\* element type makes it bail
send_array(data) ==
    IF \A i \in 1..Len(data) : data[i].type = "BulkString"
    THEN Some([n |-> Len(data), bulk |-> [i \in 1..Len(data) |-> data[i].val]])
    ELSE None

\* str::parse::<u64>() on the millisecond texts the clients of the model use
ParseMillis(s) ==
    CASE s = "0" -> Some(0)
      [] s = "1" -> Some(1)
      [] s = "2" -> Some(2)
      [] OTHER   -> None

\* ------------------------------------------------------------------ state
VARIABLES
    now,          \* Instant::now(), in ms
    replica_of,   \* config.replica_of.is_some()
    main_pc,      \* where main() is: "handshake", "accept", "exited"
    hs_pc,        \* where master_handshake() is
    hs_step,      \* the handshake step (1..4) being sent or awaited
    hs_sent,      \* the requests the primary has observed, in order
    hs_replies,   \* the values master_handshake's data_type has taken, in order
    store,        \* HashMap<String, StoreValue> behind the Mutex
    lock,         \* the session holding the MutexGuard, 0 when free
    pc,           \* per session: "unborn", "read", "lock", "write", "closed"
    rx,           \* per session: the frames at the socket, not yet read; each
                  \* entry is `acked` as it was when the client sent the frame
    cur,          \* per session: the request last taken from the socket
    op,           \* per session: the pending store operation
    reply,        \* per session: the bytes being written to the client
    tnow,         \* per session: the Instant::now() invoke_get read
    result,       \* per session: how handle_connection ended
    sent,         \* frames the clients have sent in total
    lastSet,      \* per key: the SET that last took the lock (history)
    seq,          \* number of SETs that have taken the lock (history)
    acked,        \* per key: highest SET whose +OK reached its client (history)
    c_pc,         \* parse_data_type on one stream: "idle", "loop", "ok", "err", "panic"
    c_wire,       \* the bytes of that stream not yet read; the peer closes after them
    c_arr,        \* parse_data_type's current_array
    c_out,        \* the DataType parse_data_type returned
    c_src,        \* what was put on the stream (history)
    r_pc,         \* a replica process started against this one: where its
                  \* master_handshake() is; "off" before it is started
    r_step,       \* the handshake step (1..4) that replica sends or awaits
    r_sent,       \* the requests that replica has written, in order
    r_replies,    \* the values its data_type has taken, in order
    p_pc,         \* the session of this process for the replica's
                  \* connection: "unborn", "read", "write", "closed"
    p_n,          \* requests of the replica that session has taken
    p_reply,      \* the bytes that session is writing
    p_out,        \* the replies that session has written, in order
    p_result      \* how that session's handle_connection ended

vars == <<now, replica_of, main_pc, hs_pc, hs_step, hs_sent, hs_replies, store,
          lock, pc, rx, cur, op, reply, tnow, result, sent, lastSet, seq,
          acked, c_pc, c_wire, c_arr, c_out, c_src, r_pc, r_step, r_sent,
          r_replies, p_pc, p_n, p_reply, p_out, p_result>>

codecVars == <<c_pc, c_wire, c_arr, c_out, c_src>>

replVars == <<r_pc, r_step, r_sent, r_replies>>
sessVars == <<p_pc, p_n, p_reply, p_out, p_result>>
pairVars == <<replVars, sessVars>>

hsVars   == <<hs_pc, hs_step, hs_sent, hs_replies>>
srvVars  == <<now, replica_of, store, lock, pc, rx, cur, op, reply, tnow,
              result, sent, lastSet, seq, acked>>
histVars == <<lastSet, seq, acked>>

NoFrame == [type |-> "None"]
DecodeError == [type |-> "Err"]
Eof     == [type |-> "Eof"]
NoOp    == [kind |-> "none"]
NoItem  == [frame |-> NoFrame, floor |-> 0]
NoSet   == [seq |-> 0]

\* ------------------------------------------------------ replica handshake
\* the four requests of master_handshake, as arrays of bulk strings
HandshakeRequest(step, port) ==
    CASE step = 1 -> <<BulkString("ping")>>
      [] step = 2 -> <<BulkString("REPLCONF"), BulkString("listening-port"),
                       BulkString(port)>>
      [] step = 3 -> <<BulkString("REPLCONF"), BulkString("capa"),
                       BulkString("psync2")>>
      [] step = 4 -> <<BulkString("PSYNC"), BulkString("?"), BulkString("-1")>>

\* the text each assert_eq! of master_handshake compares the reply with
HandshakeExpected(step) ==
    CASE step = 1 -> "PONG"
      [] step = 2 -> "OK"
      [] step = 3 -> "OK"

\* one line as the primary puts it on the wire: a type marker, a text and
\* `pad` trailing blanks before the CRLF
PrimaryLines ==
    [marker : {"+", "-", ":"},
     body   : {"PONG", "OK", "ERR", "FULLRESYNC 8371 0"},
     pad    : {0, 1}]

\* str::parse::<i64>() on the texts of PrimaryLines: none of them is a number
ParseI64(s) == None

\* parse_data_type on a one-line frame: s[1..].trim_end() drops the padding
parse_line(line) ==
    CASE line.marker = "+" -> Some(SimpleString(line.body))
      [] line.marker = "-" -> Some(SimpleError(line.body))
      [] line.marker = ":" ->
            IF ParseI64(line.body).some
            THEN Some(Integer(line.body)) ELSE None
      [] OTHER -> None

\* TcpStream::connect(...).await?
HsConnect ==
    /\ main_pc = "handshake" /\ hs_pc = "connect"
    /\ UNCHANGED <<srvVars, codecVars, pairVars>>
    /\ hs_pc' = "send" /\ hs_step' = 1
    /\ UNCHANGED <<main_pc, hs_sent, hs_replies>>

\* ... and its error: `?` returns Err from master_handshake and from main
HsConnectFail ==
    /\ main_pc = "handshake" /\ hs_pc = "connect"
    /\ UNCHANGED <<srvVars, codecVars, pairVars>>
    /\ hs_pc' = "err" /\ main_pc' = "exited"
    /\ UNCHANGED <<hs_step, hs_sent, hs_replies>>

\* send_array(&mut stream, &[...]).await?  After the fourth request the
\* function returns Ok(()) and main goes on to the accept loop.
HsSend ==
    /\ main_pc = "handshake" /\ hs_pc = "send"
    /\ UNCHANGED <<srvVars, codecVars, pairVars>>
    /\ LET w == send_array(HandshakeRequest(hs_step, DEFAULT_PORT)) IN
       /\ w.some
       /\ hs_sent' = Append(hs_sent, w.v.bulk)
    /\ IF hs_step = 4
       THEN hs_pc' = "ok" /\ main_pc' = "accept"
       ELSE hs_pc' = "recv" /\ main_pc' = main_pc
    /\ UNCHANGED <<hs_step, hs_replies>>

\* the write fails: `?` returns Err
HsSendFail ==
    /\ main_pc = "handshake" /\ hs_pc = "send"
    /\ UNCHANGED <<srvVars, codecVars, pairVars>>
    /\ hs_pc' = "err" /\ main_pc' = "exited"
    /\ UNCHANGED <<hs_step, hs_sent, hs_replies>>

\* HsRecv without the assert_eq! on the reply's text
HsRecvNoAssert(line) ==
    /\ main_pc = "handshake" /\ hs_pc = "recv"
    /\ UNCHANGED <<srvVars, codecVars, pairVars>>
    /\ LET r == parse_line(line) IN
       IF ~r.some
       THEN /\ hs_pc' = "err" /\ main_pc' = "exited"
            /\ hs_replies' = Append(hs_replies, DecodeError)
            /\ UNCHANGED hs_step
       ELSE /\ hs_replies' = Append(hs_replies, r.v)
            /\ IF r.v.type # "SimpleString"
               THEN hs_pc' = "err" /\ main_pc' = "exited" /\ hs_step' = hs_step
               ELSE hs_pc' = "send" /\ main_pc' = main_pc /\ hs_step' = hs_step + 1
    /\ UNCHANGED hs_sent

\* parse_data_type(&mut reader).await? on the primary's reply, the
\* let-else on SimpleString and the assert_eq! on its text
HsRecv(line) ==
    /\ main_pc = "handshake" /\ hs_pc = "recv"
    /\ UNCHANGED <<srvVars, codecVars, pairVars>>
    /\ LET r == parse_line(line) IN
       IF ~r.some
       THEN /\ hs_pc' = "err" /\ main_pc' = "exited"
            /\ hs_replies' = Append(hs_replies, DecodeError)
            /\ UNCHANGED hs_step
       ELSE /\ hs_replies' = Append(hs_replies, r.v)
            /\ IF r.v.type # "SimpleString"
               THEN hs_pc' = "err" /\ main_pc' = "exited" /\ hs_step' = hs_step
               ELSE IF r.v.val # HandshakeExpected(hs_step)
               THEN hs_pc' = "panic" /\ main_pc' = "exited" /\ hs_step' = hs_step
               ELSE hs_pc' = "send" /\ main_pc' = main_pc /\ hs_step' = hs_step + 1
    /\ UNCHANGED hs_sent

\* the primary closes the connection: read_line returns 0 bytes and
\* parse_data_type fails with "no data type given"
HsRecvEof ==
    /\ main_pc = "handshake" /\ hs_pc = "recv"
    /\ UNCHANGED <<srvVars, codecVars, pairVars>>
    /\ hs_pc' = "err" /\ main_pc' = "exited"
    /\ hs_replies' = Append(hs_replies, Eof)
    /\ UNCHANGED <<hs_step, hs_sent>>

master_handshake ==
    \/ HsConnect
    \/ HsConnectFail
    \/ HsSend
    \/ HsSendFail
    \/ \E line \in PrimaryLines : HsRecv(line)
    \/ HsRecvEof

\* ------------------------------------------------------- command dispatch
Err          == [kind |-> "Err"]
Panic        == [kind |-> "panic"]
Skip         == [kind |-> "skip"]
Write(bytes) == [kind |-> "write", reply |-> bytes]

IsBulk(arr, i) == i <= Len(arr) /\ arr[i].type = "BulkString"

\* invoke_info's reply text
InfoText(role) ==
    IF role = "master"
    THEN "role:master\r\nmaster_replid:8371b4fb1155b71f4a04d3e1bc3e18c4a990aeeb\r\nmaster_repl_offset:0"
    ELSE "role:slave\r\nmaster_replid:8371b4fb1155b71f4a04d3e1bc3e18c4a990aeeb\r\nmaster_repl_offset:0"

\* invoke_set up to its store.lock().await: the arguments after skip(1),
\* the optional "px" <millis>, and the StoreValue to insert; t is Instant::now()
invoke_set(arr, t) ==
    IF ~(IsBulk(arr, 2) /\ IsBulk(arr, 3)) THEN Err
    ELSE IF IsBulk(arr, 4) /\ arr[4].val = "px"
    THEN IF ~IsBulk(arr, 5) THEN Err
         ELSE LET millis == ParseMillis(arr[5].val) IN
              IF ~millis.some THEN Err
              ELSE [kind |-> "set", k |-> arr[2].val,
                    value |-> StoreValue(arr[3].val, Some(t + millis.v)),
                    t |-> t, seq |-> 0]
    ELSE [kind |-> "set", k |-> arr[2].val,
          value |-> StoreValue(arr[3].val, None), t |-> t, seq |-> 0]

\* invoke_get up to its store.lock().await: &arr[1] panics when there is no
\* argument
invoke_get(arr) ==
    IF Len(arr) < 2 THEN Panic
    ELSE IF arr[2].type # "BulkString" THEN Err
    ELSE [kind |-> "get", k |-> arr[2].val]

\* invoke_info
invoke_info(arr, role) ==
    IF ~IsBulk(arr, 2) THEN Err
    ELSE IF arr[2].val = "replication"
    THEN Write(send_bulk_string(InfoText(role)))
    ELSE Panic

\* the match of handle_connection on the decoded frame, up to the first
\* await of the arm it takes
dispatch(dt, t, role) ==
    IF dt.type # "Array" THEN Err
    ELSE LET arr == dt.elems IN
         IF Len(arr) = 0 THEN Err
         ELSE IF arr[1].type # "BulkString" THEN Skip
         ELSE LET command == arr[1].val IN
              CASE command = "echo" ->
                     IF ~IsBulk(arr, 2) THEN Err
                     ELSE Write(send_bulk_string(arr[2].val))
                [] command = "ping" -> Write(send_simple_string("PONG"))
                [] command = "set"  -> invoke_set(arr, t)
                [] command = "get"  -> invoke_get(arr)
                [] command = "info" -> invoke_info(arr, role)
                [] OTHER            -> Err

\* get_reply with the expiry instant itself still counted as alive
get_reply_strict(map, k, t) ==
    IF ~map[k].some THEN send_null
    ELSE LET v == map[k].v IN
         IF v.expiry.some /\ v.expiry.v < t THEN send_null
         ELSE send_bulk_string(v.value)

\* HashMap::get and the expiry match of invoke_get, under the lock
get_reply(map, k, t) ==
    IF ~map[k].some THEN send_null
    ELSE LET v == map[k].v IN
         IF v.expiry.some /\ v.expiry.v <= t THEN send_null
         ELSE send_bulk_string(v.value)

\* insert that updates the value in place and keeps an expiry already set
insert_keep_expiry(map, k, value) ==
    IF map[k].some /\ ~value.expiry.some
    THEN [map EXCEPT ![k] = Some(StoreValue(value.value, map[k].v.expiry))]
    ELSE [map EXCEPT ![k] = Some(value)]

\* insert that leaves an entry already present alone (entry().or_insert)
insert_if_absent(map, k, value) ==
    IF map[k].some THEN map ELSE [map EXCEPT ![k] = Some(value)]

\* insert into a map rebuilt from the new entry alone
insert_fresh(map, k, value) ==
    [j \in DOMAIN map |-> IF j = k THEN Some(value) ELSE None]

\* HashMap::insert
insert(map, k, value) == [map EXCEPT ![k] = Some(value)]

\* ------------------------------------------------------------ frame codec
\* Bytes are one-character strings and a stream or a text is a sequence of
\* them, so that lengths, lines and whitespace are what they are on the wire.
CR == "\r"
LF == "\n"

\* char::is_whitespace on the bytes the streams of the model carry
Whitespace == {" ", "\t", CR, LF}

\* str::trim_end
RECURSIVE trim_end(_)
trim_end(cs) ==
    IF cs # <<>> /\ cs[Len(cs)] \in Whitespace
    THEN trim_end(SubSeq(cs, 1, Len(cs) - 1))
    ELSE cs

\* the value of a decimal digit
Digit(c) ==
    CASE c = "0" -> Some(0) [] c = "1" -> Some(1) [] c = "2" -> Some(2)
      [] c = "3" -> Some(3) [] c = "4" -> Some(4) [] c = "5" -> Some(5)
      [] c = "6" -> Some(6) [] c = "7" -> Some(7) [] c = "8" -> Some(8)
      [] c = "9" -> Some(9) [] OTHER -> None

RECURSIVE DecimalValue(_)
DecimalValue(ds) ==
    IF ds = <<>> THEN 0
    ELSE 10 * DecimalValue(SubSeq(ds, 1, Len(ds) - 1)) + Digit(ds[Len(ds)]).v

AllDigits(ds) == ds # <<>> /\ \A i \in 1..Len(ds) : Digit(ds[i]).some

\* str::parse::<usize>(): digits after an optional '+'
StrParseUsize(cs) ==
    LET ds == IF cs # <<>> /\ cs[1] = "+" THEN Tail(cs) ELSE cs IN
    IF AllDigits(ds) THEN Some(DecimalValue(ds)) ELSE None

\* str::parse::<i64>(): digits after an optional '+' or '-'
StrParseI64(cs) ==
    LET ds == IF cs # <<>> /\ cs[1] \in {"+", "-"} THEN Tail(cs) ELSE cs IN
    IF ~AllDigits(ds) THEN None
    ELSE IF cs[1] = "-" THEN Some(0 - DecimalValue(ds))
    ELSE Some(DecimalValue(ds))

\* format!("{}", n) of a length or a count
RECURSIVE Decimal(_)
Decimal(n) ==
    LET d == <<"0", "1", "2", "3", "4", "5", "6", "7", "8", "9">>[(n % 10) + 1]
    IN  IF n < 10 THEN <<d>> ELSE Decimal(n \div 10) \o <<d>>

\* AsyncBufReadExt::read_line on a stream the peer closes after its last
\* byte: the bytes up to and including the first LF, or all that is left
read_line(w) ==
    LET ends == {i \in 1..Len(w) : w[i] = LF}
        n    == IF ends = {} THEN Len(w)
                ELSE CHOOSE i \in ends : \A j \in ends : i <= j
    IN  [line |-> SubSeq(w, 1, n), rest |-> SubSeq(w, n + 1, Len(w))]

\* &s[1..bytes.take_while(|c| *c != '\r').count() + 1]: the text of a header
\* line between its type marker and the first CR
HeaderText(s) ==
    LET stops == {i \in 2..Len(s) : s[i] = CR}
        n     == IF stops = {} THEN Len(s)
                 ELSE (CHOOSE i \in stops : \A j \in stops : i <= j) - 1
    IN  SubSeq(s, 2, n)

\* the end of parse_data_type's loop body: the frame goes into current_array
\* when there is one, which is returned once it has element_count elements
PushOrReturn(dt, w, current_array) ==
    IF current_array.some
    THEN LET arr == Append(current_array.v.arr, dt) IN
         IF Len(arr) = current_array.v.element_count
         THEN [kind |-> "ok", out |-> Array(arr), wire |-> w, arr |-> None]
         ELSE [kind |-> "continue", out |-> NoFrame, wire |-> w,
               arr |-> Some([arr |-> arr,
                             element_count |-> current_array.v.element_count])]
    ELSE [kind |-> "ok", out |-> dt, wire |-> w, arr |-> None]

\* one iteration of parse_data_type's loop on the stream w
parse_data_type_loop(w, current_array) ==
    LET rl   == read_line(w)
        s    == rl.line
        fail(how) == [kind |-> how, out |-> NoFrame, wire |-> rl.rest,
                      arr |-> current_array]
    IN  IF s = <<>> THEN fail("err")
        ELSE CASE s[1] = "+" ->
                    PushOrReturn(SimpleString(trim_end(Tail(s))), rl.rest,
                                 current_array)
               [] s[1] = "-" ->
                    PushOrReturn(SimpleError(trim_end(Tail(s))), rl.rest,
                                 current_array)
               [] s[1] = ":" ->
                    LET value == StrParseI64(trim_end(Tail(s))) IN
                    IF value.some
                    THEN PushOrReturn(Integer(value.v), rl.rest, current_array)
                    ELSE fail("err")
               [] s[1] = "$" ->
                    LET length == StrParseUsize(HeaderText(s))
                        rl2    == read_line(rl.rest)
                        data   == trim_end(rl2.line)
                    IN  IF ~length.some THEN fail("panic")
                        ELSE IF Len(data) # length.v
                        THEN [kind |-> "panic", out |-> NoFrame,
                              wire |-> rl2.rest, arr |-> current_array]
                        ELSE PushOrReturn(BulkString(data), rl2.rest,
                                          current_array)
               [] s[1] = "*" ->
                    LET element_count == StrParseUsize(HeaderText(s)) IN
                    IF ~element_count.some THEN fail("panic")
                    ELSE IF element_count.v > 0
                    THEN [kind |-> "continue", out |-> NoFrame,
                          wire |-> rl.rest,
                          arr |-> Some([arr |-> <<>>,
                                        element_count |-> element_count.v])]
                    ELSE PushOrReturn(Array(<<>>), rl.rest, current_array)
               [] OTHER -> fail("err")

\* the bytes one send_* call hands to write_all
WireBytes(w) ==
    CASE w.wire = "+"   -> <<"+">> \o w.text \o <<CR, LF>>
      [] w.wire = "$"   -> <<"$">> \o Decimal(Len(w.text)) \o <<CR, LF>>
                           \o w.text \o <<CR, LF>>
      [] w.wire = "$-1" -> <<"$", "-", "1", CR, LF>>

\* the bytes send_array writes: the header, then each bulk string
RECURSIVE BulkBytes(_)
BulkBytes(bulk) ==
    IF bulk = <<>> THEN <<>>
    ELSE WireBytes(send_bulk_string(Head(bulk))) \o BulkBytes(Tail(bulk))

ArrayBytes(a) == <<"*">> \o Decimal(a.n) \o <<CR, LF>> \o BulkBytes(a.bulk)

\* ---------------------------------------------------------------- clients
Cmd(name, args) ==
    Array(<<BulkString(name)>> \o [i \in 1..Len(args) |-> BulkString(args[i])])

Invalid == [type |-> "Invalid"]

\* the frames the clients send: SET and GET traffic on the store ...
StoreFrames ==
    {Cmd("get", <<"k1">>), Cmd("set", <<"k1", "a">>),
     Cmd("set", <<"k1", "b", "px", "1">>)}

\* ... and one frame for each way a session can take a request
SessionFrames ==
    {Cmd("ping", <<>>), Cmd("PING", <<>>), Cmd("echo", <<"a">>),
     Cmd("info", <<"replication">>), Cmd("get", <<>>),
     Cmd("set", <<"k1", "a">>), Cmd("SET", <<"k1", "a">>),
     Cmd("get", <<"k1">>), Invalid}

\* parse_data_type on one whole frame the clients send
parse_data_type(frame) ==
    IF frame.type = "Invalid" THEN None ELSE Some(frame)

IsGet(frame) ==
    /\ frame.type = "Array" /\ Len(frame.elems) = 2
    /\ frame.elems[1] = BulkString("get") /\ frame.elems[2].type = "BulkString"

\* ------------------------------------------------------------- the server
\* the role re-evaluated at each request: a replica whose handshake is over
\* reports itself as a primary
RoleByHandshake ==
    IF replica_of /\ hs_pc # "ok" THEN "slave" ELSE "master"

\* invoke_info's role: config.replica_of.is_none() on the shared Config
Role == IF replica_of THEN "slave" ELSE "master"

Max(a, b) == IF a >= b THEN a ELSE b

Init ==
    /\ now = 0
    /\ replica_of \in BOOLEAN
    /\ main_pc = IF replica_of THEN "handshake" ELSE "accept"
    /\ hs_pc = IF replica_of THEN "connect" ELSE "off"
    /\ hs_step = 0
    /\ hs_sent = <<>>
    /\ hs_replies = <<>>
    /\ store = [k \in Keys |-> None]
    /\ lock = 0
    /\ pc = [s \in Sessions |-> "unborn"]
    /\ rx = [s \in Sessions |-> <<>>]
    /\ cur = [s \in Sessions |-> NoItem]
    /\ op = [s \in Sessions |-> NoOp]
    /\ reply = [s \in Sessions |-> NoReply]
    /\ tnow = [s \in Sessions |-> 0]
    /\ result = [s \in Sessions |-> "running"]
    /\ sent = 0
    /\ lastSet = [k \in Keys |-> NoSet]
    /\ seq = 0
    /\ acked = [k \in Keys |-> 0]
    /\ c_pc = "idle"
    /\ c_wire = <<>>
    /\ c_arr = None
    /\ c_out = NoFrame
    /\ c_src = [kind |-> "none", frame |-> NoFrame, bytes |-> <<>>]
    /\ r_pc = "off"
    /\ r_step = 0
    /\ r_sent = <<>>
    /\ r_replies = <<>>
    /\ p_pc = "unborn"
    /\ p_n = 0
    /\ p_reply = NoReply
    /\ p_out = <<>>
    /\ p_result = "running"

\* Instant::now() advances
Tick ==
    /\ main_pc = "accept" /\ now < MaxTime
    /\ now' = now + 1
    /\ UNCHANGED <<replica_of, main_pc, hsVars, codecVars, pairVars, store, lock, pc, rx, cur, op,
                   reply, tnow, result, sent, histVars>>

\* Accept with the accept loop started beside the handshake, not after it
AcceptDuringHandshake ==
    /\ main_pc \in {"handshake", "accept"}
    /\ \E s \in Sessions :
         /\ pc[s] = "unborn"
         /\ \A o \in Sessions : o < s => pc[o] # "unborn"
         /\ pc' = [pc EXCEPT ![s] = "read"]
    /\ UNCHANGED <<now, replica_of, main_pc, hsVars, codecVars, pairVars, store, lock, rx, cur, op,
                   reply, tnow, result, sent, histVars>>

\* main's loop: listener.accept() returns a stream and the session task is
\* spawned
Accept ==
    /\ main_pc = "accept"
    /\ \E s \in Sessions :
         /\ pc[s] = "unborn"
         /\ \A o \in Sessions : o < s => pc[o] # "unborn"
         /\ pc' = [pc EXCEPT ![s] = "read"]
    /\ UNCHANGED <<now, replica_of, main_pc, hsVars, codecVars, pairVars, store, lock, rx, cur, op,
                   reply, tnow, result, sent, histVars>>

\* main's loop: listener.accept() fails, main bails and the runtime stops,
\* dropping every session task with its locals and its socket
AcceptFail ==
    /\ main_pc = "accept"
    /\ main_pc' = "exited"
    /\ pc' = [s \in Sessions |-> IF pc[s] \in {"unborn", "closed"} THEN pc[s]
                                 ELSE "killed"]
    /\ lock' = 0
    /\ rx' = [s \in Sessions |-> <<>>]
    /\ cur' = [s \in Sessions |-> NoItem]
    /\ op' = [s \in Sessions |-> NoOp]
    /\ reply' = [s \in Sessions |-> NoReply]
    /\ tnow' = [s \in Sessions |-> 0]
    /\ UNCHANGED <<now, replica_of, hsVars, codecVars, pairVars, store, result, sent,
                   histVars>>

\* a client writes one more frame to its connection; what the frame holds
\* shows when the session decodes it.  The entry records which SETs had been
\* answered when the frame was sent.
ClientSend(s) ==
    /\ main_pc = "accept"
    /\ pc[s] \in {"read", "lock", "write"}
    /\ sent < MaxReqs
    /\ sent' = sent + 1
    /\ rx' = [rx EXCEPT ![s] = Append(@, acked)]
    /\ UNCHANGED <<now, replica_of, main_pc, hsVars, codecVars, pairVars, store, lock, pc, cur, op,
                   reply, tnow, result, histVars>>

\* Leave with the MutexGuard leaked instead of dropped
LeaveHoldingLock(s, how) ==
    /\ pc' = [pc EXCEPT ![s] = "closed"]
    /\ result' = [result EXCEPT ![s] = how]
    /\ lock' = lock
    /\ op' = [op EXCEPT ![s] = NoOp]
    /\ reply' = [reply EXCEPT ![s] = NoReply]
    /\ tnow' = [tnow EXCEPT ![s] = 0]

\* the session leaves handle_connection: its locals are dropped, and with
\* them a MutexGuard it holds
Leave(s, how) ==
    /\ pc' = [pc EXCEPT ![s] = "closed"]
    /\ result' = [result EXCEPT ![s] = how]
    /\ lock' = IF lock = s THEN 0 ELSE lock
    /\ op' = [op EXCEPT ![s] = NoOp]
    /\ reply' = [reply EXCEPT ![s] = NoReply]
    /\ tnow' = [tnow EXCEPT ![s] = 0]

\* handle_connection: BufReader::new(&mut stream), parse_data_type on it
\* and the match on the frame.  The reader takes every byte the socket
\* holds into its buffer, parse_data_type consumes the first frame, and the
\* reader with the rest of its buffer is dropped at the end of the iteration.
\* A session that leaves here keeps in cur the request that ended it.
Read(s, frame) ==
    /\ main_pc = "accept"
    /\ pc[s] = "read" /\ rx[s] # <<>>
    /\ rx' = [rx EXCEPT ![s] = <<>>]
    /\ LET item == [frame |-> frame,
                    floor |-> IF IsGet(frame)
                              THEN Head(rx[s])[frame.elems[2].val] ELSE 0]
           dt   == parse_data_type(frame)
           out  == IF dt.some THEN dispatch(dt.v, now, Role) ELSE Err
       IN  CASE ~dt.some           ->
                    Leave(s, "decode") /\ cur' = [cur EXCEPT ![s] = item]
             [] out.kind = "Err"   ->
                    Leave(s, "dispatch") /\ cur' = [cur EXCEPT ![s] = item]
             [] out.kind = "panic" ->
                    Leave(s, "panic") /\ cur' = [cur EXCEPT ![s] = item]
             [] out.kind = "skip"  ->
                    /\ cur' = [cur EXCEPT ![s] = item]
                    /\ UNCHANGED <<pc, result, lock, op, reply, tnow>>
             [] out.kind = "write" ->
                    /\ pc' = [pc EXCEPT ![s] = "write"]
                    /\ cur' = [cur EXCEPT ![s] = item]
                    /\ reply' = [reply EXCEPT ![s] = out.reply]
                    /\ UNCHANGED <<result, lock, op, tnow>>
             [] OTHER ->
                    /\ pc' = [pc EXCEPT ![s] = "lock"]
                    /\ cur' = [cur EXCEPT ![s] = item]
                    /\ op' = [op EXCEPT ![s] = out]
                    /\ UNCHANGED <<result, lock, reply, tnow>>
    /\ UNCHANGED <<now, replica_of, main_pc, hsVars, codecVars, pairVars, store, sent,
                   histVars>>

\* handle_connection: the client has closed and nothing is left to read;
\* read_line returns 0 bytes and parse_data_type fails
ReadEof(s) ==
    /\ main_pc = "accept"
    /\ pc[s] = "read" /\ rx[s] = <<>>
    /\ Leave(s, "eof")
    /\ UNCHANGED <<now, replica_of, main_pc, hsVars, codecVars, pairVars, store, rx, cur, sent,
                   histVars>>

\* invoke_set: store.lock().await.insert(k, value); the guard is a
\* temporary of that statement and is dropped at its end
SetInsert(s) ==
    /\ main_pc = "accept"
    /\ pc[s] = "lock" /\ op[s].kind = "set" /\ lock = 0
    /\ store' = insert(store, op[s].k, op[s].value)
    /\ lock' = 0
    /\ pc' = [pc EXCEPT ![s] = "write"]
    /\ reply' = [reply EXCEPT ![s] = send_simple_string("OK")]
    /\ seq' = seq + 1
    /\ op' = [op EXCEPT ![s].seq = seq + 1]
    /\ lastSet' = [lastSet EXCEPT ![op[s].k] =
                     [seq |-> seq + 1, frame |-> cur[s].frame,
                      t |-> IF op[s].value.expiry.some THEN op[s].t ELSE 0,
                      by |-> s,
                      over |-> IF store[op[s].k].some
                               THEN store[op[s].k].v.expiry ELSE None]]
    /\ UNCHANGED <<now, replica_of, main_pc, hsVars, codecVars, pairVars, rx, cur, tnow, result,
                   sent, acked>>

\* invoke_get: match store.lock().await.get(k) { ... }; the guard is a
\* temporary of the match scrutinee and lives to the end of the match, in
\* whose arms the reply is written
GetLookup(s) ==
    /\ main_pc = "accept"
    /\ pc[s] = "lock" /\ op[s].kind = "get" /\ lock = 0
    /\ lock' = s
    /\ tnow' = [tnow EXCEPT ![s] = now]
    /\ reply' = [reply EXCEPT ![s] = get_reply(store, op[s].k, now)]
    /\ pc' = [pc EXCEPT ![s] = "write"]
    /\ UNCHANGED <<now, replica_of, main_pc, hsVars, codecVars, pairVars, store, rx, cur, op,
                   result, sent, histVars>>

\* write_all(...).await of the reply completes and the loop goes back to
\* reading
WriteOk(s) ==
    /\ main_pc = "accept"
    /\ pc[s] = "write"
    /\ lock' = IF lock = s THEN 0 ELSE lock
    /\ acked' = IF op[s].kind = "set"
                THEN [acked EXCEPT ![op[s].k] = Max(@, op[s].seq)]
                ELSE acked
    /\ pc' = [pc EXCEPT ![s] = "read"]
    /\ cur' = [cur EXCEPT ![s] = NoItem]
    /\ op' = [op EXCEPT ![s] = NoOp]
    /\ reply' = [reply EXCEPT ![s] = NoReply]
    /\ tnow' = [tnow EXCEPT ![s] = 0]
    /\ UNCHANGED <<now, replica_of, main_pc, hsVars, codecVars, pairVars, store, rx, result, sent,
                   lastSet, seq>>

\* write_all(...).await fails: `?` returns the error from handle_connection
\* and the stream is dropped with what the client had sent
WriteFail(s) ==
    /\ main_pc = "accept"
    /\ pc[s] = "write"
    /\ Leave(s, "write")
    /\ cur' = [cur EXCEPT ![s] = NoItem]
    /\ rx' = [rx EXCEPT ![s] = <<>>]
    /\ UNCHANGED <<now, replica_of, main_pc, hsVars, codecVars, pairVars, store, sent, histVars>>

handle_connection(s, Frames) ==
    \/ \E frame \in Frames : Read(s, frame)
    \/ ReadEof(s)
    \/ SetInsert(s)
    \/ GetLookup(s)
    \/ WriteOk(s)
    \/ WriteFail(s)

\* the accept loop, the sessions and their clients
Serve(Frames) ==
    \/ Accept
    \/ AcceptFail
    \/ \E s \in Sessions : handle_connection(s, Frames)
    \/ \E s \in Sessions : ClientSend(s)

\* every configuration, one frame for each way a session takes a request;
\* none of these frames carries an expiry, so the clock stays where it is
Next ==
    \/ master_handshake
    \/ Serve(SessionFrames)

Spec == Init /\ [][Next]_vars

\* a primary (no --replicaof: master_handshake is not called) whose sessions
\* serve SET and GET while the clock advances; how sessions and the listener
\* fail is what Spec explores
InitStore == Init /\ replica_of = FALSE

NextStore ==
    \/ Tick
    \/ Accept
    \/ \E s \in Sessions : ClientSend(s)
    \/ \E s \in Sessions, frame \in StoreFrames : Read(s, frame)
    \/ \E s \in Sessions : SetInsert(s) \/ GetLookup(s) \/ WriteOk(s)

SpecStore == InitStore /\ [][NextStore]_vars

\* ---------------------------------------------------- the codec on a stream
\* the absent ("null") bulk string, which send_null writes
Null == [type |-> "Null"]

\* the frames a peer writes with the send_* functions
WrittenTexts == {<<>>, <<"a">>, <<"a", "b">>, <<"a", " ">>}

WrittenFrames ==
    {SimpleString(t) : t \in WrittenTexts}
    \cup {BulkString(t) : t \in WrittenTexts}
    \cup {Null}
    \cup {Array(<<>>), Array(<<BulkString(<<"a">>)>>),
          Array(<<BulkString(<<"a">>), BulkString(<<>>)>>)}

\* the send_* call that writes a frame, and the bytes it puts on the stream
Encode(frame) ==
    CASE frame.type = "SimpleString" ->
             Some(WireBytes(send_simple_string(frame.val)))
      [] frame.type = "BulkString" ->
             Some(WireBytes(send_bulk_string(frame.val)))
      [] frame.type = "Null" -> Some(WireBytes(send_null))
      [] frame.type = "Array" ->
             LET a == send_array(frame.elems) IN
             IF a.some THEN Some(ArrayBytes(a.v)) ELSE None
      [] OTHER -> None

\* the lines a peer sends: headers, payloads and texts, with a CRLF, a bare
\* LF or no terminator at all
WireLines ==
    {<<"+", "a", CR, LF>>, <<"+", "a", " ", CR, LF>>, <<"+", "a">>,
     <<":", "1", CR, LF>>, <<":", "a", CR, LF>>,
     <<"$", "0", CR, LF>>, <<"$", "1", CR, LF>>, <<"$", "2", CR, LF>>,
     <<"$", "3", CR, LF>>, <<"$", "-", "1", CR, LF>>,
     <<"a", CR, LF>>, <<"a", " ", CR, LF>>, <<"a", LF>>, <<"b", CR, LF>>,
     <<CR, LF>>,
     <<"*", "0", CR, LF>>, <<"*", "1", CR, LF>>, <<"*", "2", CR, LF>>}

\* the streams of at most n of these lines
RECURSIVE Streams(_)
Streams(n) ==
    IF n = 0 THEN {<<>>}
    ELSE LET shorter == Streams(n - 1) IN
         shorter \cup {l \o w : l \in WireLines, w \in shorter}

WireInputs == Streams(MaxLines)

\* a peer writes one frame with the encoder and closes
CodecWrite(frame) ==
    /\ c_pc = "idle"
    /\ Encode(frame).some
    /\ c_pc' = "loop"
    /\ c_wire' = Encode(frame).v
    /\ c_src' = [kind |-> "frame", frame |-> frame, bytes |-> Encode(frame).v]
    /\ UNCHANGED <<c_arr, c_out, main_pc, hsVars, srvVars, pairVars>>

\* a peer sends some bytes and closes
CodecArrive(bytes) ==
    /\ c_pc = "idle"
    /\ c_pc' = "loop"
    /\ c_wire' = bytes
    /\ c_src' = [kind |-> "bytes", frame |-> NoFrame, bytes |-> bytes]
    /\ UNCHANGED <<c_arr, c_out, main_pc, hsVars, srvVars, pairVars>>

\* parse_data_type: one iteration of its loop, up to its return
ParseDataType ==
    /\ c_pc = "loop"
    /\ LET r == parse_data_type_loop(c_wire, c_arr) IN
       /\ c_pc' = IF r.kind = "continue" THEN "loop" ELSE r.kind
       /\ c_wire' = r.wire
       /\ c_arr' = r.arr
       /\ c_out' = r.out
    /\ UNCHANGED <<c_src, main_pc, hsVars, srvVars, pairVars>>

\* parse_data_type on the streams of one peer after another
InitCodec == Init /\ replica_of = FALSE

NextCodec ==
    \/ \E frame \in WrittenFrames : CodecWrite(frame)
    \/ \E bytes \in WireInputs : CodecArrive(bytes)
    \/ ParseDataType

SpecCodec == InitCodec /\ [][NextCodec]_vars

\* ------------------------------------------------ requests that go wrong
\* a request whose second element is an Integer
CmdInt(name) == Array(<<BulkString(name), Integer(1)>>)

\* frames the dispatcher has no command for, commands without their
\* arguments or with arguments of the wrong type, SET with a broken expiry
\* option, frames that are no requests at all, the replication commands
\* and, beside them, requests that are served
DispatchFrames ==
    {Cmd("nope", <<>>),
     Cmd("echo", <<>>), CmdInt("echo"), Cmd("get", <<>>), CmdInt("get"),
     Cmd("set", <<"k1">>), CmdInt("set"), Cmd("info", <<>>), CmdInt("info"),
     Array(<<BulkString("set"), BulkString("k1"), Integer(1)>>),
     Cmd("set", <<"k1", "a", "px">>), Cmd("set", <<"k1", "a", "px", "x">>),
     Cmd("set", <<"k1", "a", "PX">>), Cmd("set", <<"k1", "a", "PX", "x">>),
     Cmd("set", <<"k1", "a", "PX", "1">>),
     SimpleString("a"), Integer(1), Array(<<>>), Array(<<Integer(1)>>),
     Array(<<SimpleString("a")>>), Array(<<SimpleError("a")>>),
     Array(<<Array(<<>>)>>),
     Cmd("REPLCONF", <<"capa", "psync2">>), Cmd("PSYNC", <<"?", "-1">>),
     Cmd("psync", <<"?", "-1">>),
     Cmd("set", <<"k1", "a">>), Cmd("get", <<"k1">>), Cmd("ping", <<>>)}

\* a primary whose clients send these frames
NextDispatch == Serve(DispatchFrames)

SpecDispatch == InitStore /\ [][NextDispatch]_vars

\* ------------------------------------------- every command, and two keys
\* one request of every command a client or a replica sends: GET of a key
\* that is absent, expired or alive, SET with an expiry that has run out
\* at once, SET of the other key, PING, ECHO, INFO and the replication
\* commands of master_handshake
TrafficFrames ==
    {Cmd("get", <<"k1">>), Cmd("get", <<"k2">>),
     Cmd("set", <<"k1", "a", "px", "0">>), Cmd("set", <<"k2", "b">>),
     Cmd("ping", <<>>), Cmd("echo", <<"a">>), Cmd("info", <<"replication">>),
     Cmd("REPLCONF", <<"capa", "psync2">>), Cmd("PSYNC", <<"?", "-1">>)}

NextTraffic == Serve(TrafficFrames)

SpecTraffic == InitStore /\ [][NextTraffic]_vars

\* --------------------------------------- a replica against a primary
\* A second process runs the same program with --replicaof pointing at this
\* one: its master_handshake connects, the accept loop here hands the
\* connection to a session of its own, and the clients of this process go
\* on beside it.  r_sent is what that session finds at its socket, p_out
\* what the replica's master_handshake finds at its own.  Once main has
\* exited the session takes no step and its socket is closed.

\* the frame parse_data_type returns for a request written by send_array
RequestFrame(bulk) == Cmd(Head(bulk), Tail(bulk))

\* a reply written by send_simple_string, as the line the replica reads
ReplyLine(w) == [marker |-> w.wire, body |-> w.text, pad |-> 0]

\* the replica: TcpStream::connect(...).await?
RConnect ==
    /\ main_pc = "accept" /\ r_pc = "off"
    /\ r_pc' = "send" /\ r_step' = 1
    /\ UNCHANGED <<r_sent, r_replies, sessVars>>
    /\ UNCHANGED <<main_pc, hsVars, srvVars, codecVars>>

\* ... and its error
RConnectFail ==
    /\ main_pc = "accept" /\ r_pc = "off"
    /\ r_pc' = "err"
    /\ UNCHANGED <<r_step, r_sent, r_replies, sessVars>>
    /\ UNCHANGED <<main_pc, hsVars, srvVars, codecVars>>

\* the replica: send_array(&mut stream, &[...]).await?  After the fourth
\* request master_handshake returns Ok(()) and its stream is dropped.
RSend ==
    /\ r_pc = "send"
    /\ LET w == send_array(HandshakeRequest(r_step, DEFAULT_PORT)) IN
       /\ w.some
       /\ r_sent' = Append(r_sent, w.v.bulk)
    /\ r_pc' = IF r_step = 4 THEN "ok" ELSE "recv"
    /\ UNCHANGED <<r_step, r_replies, sessVars>>
    /\ UNCHANGED <<main_pc, hsVars, srvVars, codecVars>>

\* the write fails: `?` returns Err
RSendFail ==
    /\ r_pc = "send"
    /\ r_pc' = "err"
    /\ UNCHANGED <<r_step, r_sent, r_replies, sessVars>>
    /\ UNCHANGED <<main_pc, hsVars, srvVars, codecVars>>

\* the replica: parse_data_type(&mut reader).await? on the next reply this
\* process has written, the let-else on SimpleString and the assert_eq!
RRecv ==
    /\ r_pc = "recv" /\ Len(r_replies) < Len(p_out)
    /\ LET r == parse_line(ReplyLine(p_out[Len(r_replies) + 1])) IN
       IF ~r.some
       THEN /\ r_pc' = "err"
            /\ r_replies' = Append(r_replies, DecodeError)
            /\ UNCHANGED r_step
       ELSE /\ r_replies' = Append(r_replies, r.v)
            /\ IF r.v.type # "SimpleString"
               THEN r_pc' = "err" /\ r_step' = r_step
               ELSE IF r.v.val # HandshakeExpected(r_step)
               THEN r_pc' = "panic" /\ r_step' = r_step
               ELSE r_pc' = "send" /\ r_step' = r_step + 1
    /\ UNCHANGED <<r_sent, sessVars>>
    /\ UNCHANGED <<main_pc, hsVars, srvVars, codecVars>>

\* the replica finds the connection closed with nothing left to read:
\* read_line returns 0 bytes and parse_data_type fails
RRecvEof ==
    /\ r_pc = "recv" /\ Len(r_replies) = Len(p_out)
    /\ p_pc = "closed" \/ (p_pc # "unborn" /\ main_pc = "exited")
    /\ r_pc' = "err"
    /\ r_replies' = Append(r_replies, Eof)
    /\ UNCHANGED <<r_step, r_sent, sessVars>>
    /\ UNCHANGED <<main_pc, hsVars, srvVars, codecVars>>

\* main: listener.accept() returns the replica's connection and
\* handle_connection is spawned on it
PAccept ==
    /\ main_pc = "accept"
    /\ r_step >= 1 /\ p_pc = "unborn"
    /\ p_pc' = "read"
    /\ UNCHANGED <<p_n, p_reply, p_out, p_result, replVars>>
    /\ UNCHANGED <<main_pc, hsVars, srvVars, codecVars>>

\* handle_connection on the replica's connection: parse_data_type on its
\* next request and the match on it.  master_handshake sends no request
\* before it has the reply to the one before, so one frame at most is
\* waiting; none of its requests is a SET or a GET.
PRead ==
    /\ main_pc = "accept"
    /\ p_pc = "read" /\ p_n < Len(r_sent)
    /\ LET out == dispatch(RequestFrame(r_sent[p_n + 1]), now, Role) IN
       /\ out.kind \in {"Err", "panic", "skip", "write"}
       /\ p_n' = p_n + 1
       /\ CASE out.kind = "Err" ->
                 /\ p_pc' = "closed" /\ p_result' = "dispatch"
                 /\ UNCHANGED p_reply
            [] out.kind = "panic" ->
                 /\ p_pc' = "closed" /\ p_result' = "panic"
                 /\ UNCHANGED p_reply
            [] out.kind = "skip" ->
                 UNCHANGED <<p_pc, p_result, p_reply>>
            [] out.kind = "write" ->
                 /\ p_pc' = "write" /\ p_reply' = out.reply
                 /\ UNCHANGED p_result
    /\ UNCHANGED <<p_out, replVars>>
    /\ UNCHANGED <<main_pc, hsVars, srvVars, codecVars>>

\* handle_connection on the replica's connection: master_handshake has
\* returned, its stream is dropped; read_line returns 0 bytes and
\* parse_data_type fails
PReadEof ==
    /\ main_pc = "accept"
    /\ p_pc = "read" /\ p_n = Len(r_sent)
    /\ r_pc \in {"ok", "err", "panic"}
    /\ p_pc' = "closed" /\ p_result' = "eof"
    /\ UNCHANGED <<p_n, p_reply, p_out, replVars>>
    /\ UNCHANGED <<main_pc, hsVars, srvVars, codecVars>>

\* write_all(...).await of the reply completes and the loop goes back to
\* reading
PWriteOk ==
    /\ main_pc = "accept"
    /\ p_pc = "write"
    /\ p_out' = Append(p_out, p_reply)
    /\ p_pc' = "read" /\ p_reply' = NoReply
    /\ UNCHANGED <<p_n, p_result, replVars>>
    /\ UNCHANGED <<main_pc, hsVars, srvVars, codecVars>>

\* write_all(...).await fails
PWriteFail ==
    /\ main_pc = "accept"
    /\ p_pc = "write"
    /\ p_pc' = "closed" /\ p_result' = "write" /\ p_reply' = NoReply
    /\ UNCHANGED <<p_n, p_out, replVars>>
    /\ UNCHANGED <<main_pc, hsVars, srvVars, codecVars>>

\* what the other clients of the primary send meanwhile
PairFrames ==
    {Cmd("ping", <<>>), Cmd("set", <<"k1", "a">>), Cmd("get", <<"k1">>)}

NextPair ==
    \/ RConnect
    \/ RConnectFail
    \/ RSend
    \/ RSendFail
    \/ RRecv
    \/ RRecvEof
    \/ PAccept
    \/ PRead
    \/ PReadEof
    \/ PWriteOk
    \/ PWriteFail
    \/ Serve(PairFrames)

SpecPair == InitStore /\ [][NextPair]_vars

\* ================================================================ claims
\* the lower-case spelling of a command name
Lower(name) ==
    CASE name \in {"PING", "Ping"} -> "ping"
      [] name \in {"ECHO", "Echo"} -> "echo"
      [] name \in {"SET", "Set"}   -> "set"
      [] name \in {"GET", "Get"}   -> "get"
      [] name \in {"INFO", "Info"} -> "info"
      [] name = "REPLCONF"         -> "replconf"
      [] name = "PSYNC"            -> "psync"
      [] OTHER                     -> name

\* the handshake of the specification: request i and the reply expected to it
SpecRequests ==
    <<<<"PING">>, <<"REPLCONF", "listening-port", DEFAULT_PORT>>,
      <<"REPLCONF", "capa", "psync2">>, <<"PSYNC", "?", "-1">>>>

SpecReplies == <<SimpleString("PONG"), SimpleString("OK"), SimpleString("OK")>>

\* the same request, the command name compared without regard to case
SameRequest(req, want) ==
    /\ Len(req) = Len(want)
    /\ Lower(req[1]) = Lower(want[1])
    /\ \A i \in 2..Len(req) : req[i] = want[i]

\* C3: the primary observes PING, REPLCONF listening-port <port>, REPLCONF
\* capa psync2, PSYNC ? -1 in that order; request i+1 is sent only once the
\* reply to request i has been received and is the expected one (PONG, OK,
\* OK); after a reply of the wrong type or text, or a failed connection, the
\* handshake has aborted and no later request has been sent.
C3_HandshakeOrder ==
    /\ Len(hs_sent) <= 4
    /\ Len(hs_replies) <= Len(hs_sent)
    /\ \A i \in 1..Len(hs_sent) :
         /\ SameRequest(hs_sent[i], SpecRequests[i])
         /\ i > 1 => /\ Len(hs_replies) >= i - 1
                     /\ hs_replies[i - 1] = SpecReplies[i - 1]
    /\ \A i \in 1..Len(hs_replies) :
         (i > 3 \/ hs_replies[i] # SpecReplies[i]) =>
             /\ hs_pc \in {"err", "panic"}
             /\ main_pc = "exited"
             /\ Len(hs_sent) = i
    /\ hs_pc \in {"err", "panic"} => main_pc = "exited"

\* C3 witness: a full handshake, every request sent after its reply
C3_Witness ==
    /\ Len(hs_sent) = 4
    /\ hs_replies = SpecReplies

\* C4 (as claimed): the handshake reports success only after a SimpleString
\* beginning with FULLRESYNC has been received in answer to PSYNC.
C4_SuccessNeedsFullResync ==
    hs_pc = "ok" =>
        /\ Len(hs_replies) = 4
        /\ hs_replies[4].type = "SimpleString"
        /\ hs_replies[4].val = "FULLRESYNC 8371 0"

\* C5: on a replica no connection is accepted and no request is dispatched
\* before master_handshake has returned Ok; after a failed handshake no
\* connection is ever accepted; with no primary configured no handshake
\* request is sent.
C5_HandshakeBeforeServing ==
    /\ (replica_of /\ hs_pc # "ok") =>
          /\ \A s \in Sessions : pc[s] = "unborn" /\ rx[s] = <<>>
          /\ sent = 0 /\ lock = 0
          /\ store = [k \in Keys |-> None]
    /\ hs_pc \in {"err", "panic"} => main_pc = "exited"
    /\ main_pc = "exited" => ~ENABLED Accept
    /\ ~replica_of => hs_sent = <<>> /\ hs_pc = "off"

\* C5 witness: a replica that has dispatched a request after its handshake
\* and is writing the reply
C5_Witness ==
    /\ replica_of /\ hs_pc = "ok"
    /\ \E s \in Sessions : pc[s] = "write" /\ reply[s] # NoReply

\* a request with its command name spelled in lower case
LowerCommand(frame) ==
    IF frame.type = "Array" /\ IsBulk(frame.elems, 1)
    THEN Array([frame.elems EXCEPT ![1] = BulkString(Lower(@.val))])
    ELSE frame

\* C6 (as claimed): whatever the case of its command name, a request is
\* dispatched like its lower-case spelling: same reply, same store
\* operation.  Stated of the request each session has last decoded.
C6_CaseInsensitiveDispatch ==
    \A s \in Sessions :
        (cur[s].frame # NoFrame /\ parse_data_type(cur[s].frame).some) =>
            dispatch(cur[s].frame, now, Role) =
                dispatch(LowerCommand(cur[s].frame), now, Role)

\* C7 (as claimed): a session suspended at a network read or a network
\* write does not hold the store lock.
C7_NoLockAcrossIo ==
    \A s \in Sessions : pc[s] \in {"read", "write"} => lock # s

\* C8: when one session ends (end of stream, decode or dispatch error,
\* write failure, panic) while the process runs, the store is unchanged, the
\* lock is not left with the ended session (a lock it held is free, any
\* other holder keeps it), the accept loop is still accepting, and every
\* other session is where it was, with its socket and its locals.
C8_SessionIsolation ==
    [][\A s \in Sessions :
         (pc[s] \in {"read", "lock", "write"} /\ pc'[s] = "closed") =>
            /\ store' = store
            /\ lock' # s
            /\ lock' = IF lock = s THEN 0 ELSE lock
            /\ main_pc = "accept" /\ main_pc' = "accept"
            /\ \A o \in Sessions \ {s} :
                 /\ pc'[o] = pc[o] /\ rx'[o] = rx[o] /\ cur'[o] = cur[o]
                 /\ op'[o] = op[o] /\ reply'[o] = reply[o]
                 /\ result'[o] = result[o]]_vars

\* C8 witness: one session has ended by a panic or an error; after it the
\* store still holds an entry and another session has taken the lock for a
\* GET
C8_Witness ==
    \E s, o \in Sessions :
        /\ pc[s] = "closed" /\ result[s] \in {"decode", "dispatch", "panic"}
        /\ pc[o] = "write" /\ op[o].kind = "get" /\ lock = o
        /\ store["k1"].some
        /\ main_pc = "accept"

\* C9 (as claimed): each decode consumes the bytes of one frame only, so no
\* request is skipped or lost: when a session takes a well-formed supported
\* request from its socket and goes on to serve it, the socket is left with
\* every frame behind that request.
C9_OneFramePerDecode ==
    [][\A s \in Sessions :
         (pc[s] = "read" /\ pc'[s] \in {"lock", "write"}) =>
            rx'[s] = Tail(rx[s])]_vars

\* what a SET request asks for: its value and its relative expiry in ms
ClaimValue(frame) == frame.elems[3].val

ClaimExpiry(frame) ==
    IF Len(frame.elems) = 5 /\ frame.elems[4].val = "px"
    THEN Some(CASE frame.elems[5].val = "1" -> 1
                [] frame.elems[5].val = "2" -> 2)
    ELSE None

\* the sessions that have looked a key up and are writing the GET's reply
Getting(s) == pc[s] = "write" /\ op[s].kind = "get"

\* C1: let the last SET of k before a GET of k be SET k v, taken at instant
\* t (where invoke_set reads the clock).  With a relative expiry of d ms the
\* GET, evaluated at t', returns v exactly when t' < t + d and the null bulk
\* string exactly when t' >= t + d; without an expiry it returns v.
C1_ExpirySemantics ==
    \A s \in Sessions :
        (Getting(s) /\ lastSet[op[s].k].seq > 0) =>
            LET last == lastSet[op[s].k]
                v    == ClaimValue(last.frame)
                d    == ClaimExpiry(last.frame)
            IN  IF d.some
                THEN /\ (reply[s] = send_bulk_string(v)) <=> (tnow[s] < last.t + d.v)
                     /\ (reply[s] = send_null) <=> (tnow[s] >= last.t + d.v)
                ELSE reply[s] = send_bulk_string(v)

\* C1 witness: a GET evaluated exactly at the expiry instant t + d of the
\* last SET, d > 0 ms after it, answers the null bulk string
C1_Witness ==
    \E s \in Sessions :
        /\ Getting(s) /\ lastSet[op[s].k].seq > 0
        /\ ClaimExpiry(lastSet[op[s].k].frame).some
        /\ tnow[s] = lastSet[op[s].k].t + ClaimExpiry(lastSet[op[s].k].frame).v
        /\ reply[s] = send_null

\* C2: after any SET the entry is the one that SET asks for, value and
\* expiry: the expiry is the SET's own (its instant plus its duration) or
\* none when it carries none, whatever entry it replaced; so a GET after a
\* SET without expiry returns its value, also past the expiry of an entry
\* the SET replaced.
C2_OverwriteClearsExpiry ==
    /\ \A k \in Keys :
         lastSet[k].seq > 0 =>
            LET d == ClaimExpiry(lastSet[k].frame) IN
            store[k] = Some(StoreValue(ClaimValue(lastSet[k].frame),
                         IF d.some THEN Some(lastSet[k].t + d.v) ELSE None))
    /\ \A s \in Sessions :
         (/\ Getting(s) /\ lastSet[op[s].k].seq > 0
          /\ ~ClaimExpiry(lastSet[op[s].k].frame).some) =>
            reply[s].text = ClaimValue(lastSet[op[s].k].frame)

\* C2 witness: a SET without expiry replaced an entry with an expiry, and a
\* GET at or after that expiry instant returns the new value
C2_Witness ==
    \E s \in Sessions :
        /\ Getting(s) /\ lastSet[op[s].k].seq > 0
        /\ ~ClaimExpiry(lastSet[op[s].k].frame).some
        /\ lastSet[op[s].k].over.some
        /\ lastSet[op[s].k].over.v <= tnow[s]
        /\ reply[s] = send_bulk_string(ClaimValue(lastSet[op[s].k].frame))

\* C10: in the order in which the operations take the lock, every GET k
\* answers by the latest SET k before it: its value when that entry is
\* unexpired, the null bulk string when there is no such SET or its entry
\* is expired; and a GET issued after some session received +OK for a SET k
\* is answered by
\* that SET or a later one.
C10_Linearized ==
    /\ \A s \in Sessions :
         Getting(s) =>
            LET last == lastSet[op[s].k] IN
            /\ last.seq >= cur[s].floor
            /\ reply[s] =
                 IF last.seq = 0 THEN send_null
                 ELSE LET d == ClaimExpiry(last.frame) IN
                      IF d.some /\ last.t + d.v <= tnow[s] THEN send_null
                      ELSE send_bulk_string(ClaimValue(last.frame))
    /\ \A k \in Keys : acked[k] <= lastSet[k].seq /\ lastSet[k].seq <= seq

\* C10 witness: a GET issued after another session received +OK for its SET
\* of the key returns that SET's value
C10_Witness ==
    \E s \in Sessions :
        /\ Getting(s)
        /\ cur[s].floor > 0
        /\ lastSet[op[s].k].seq = cur[s].floor
        /\ lastSet[op[s].k].by # s
        /\ reply[s] = send_bulk_string(ClaimValue(lastSet[op[s].k].frame))

\* parse_data_type has returned, by a value, by an error or by a panic
Decoded == c_pc \in {"ok", "err", "panic"}

\* C11 (as claimed): a frame written with the encoder (a simple string, a
\* bulk string that may be empty or null, an array of bulk strings) and then
\* decoded from the written bytes decodes successfully to an equal frame.
C11_RoundTrip ==
    (c_src.kind = "frame" /\ Decoded) =>
        (c_pc = "ok" /\ c_out = c_src.frame)

\* a bulk string on the wire: a header declaring n bytes, a payload and the
\* terminator
BulkWire(n, payload) ==
    <<"$">> \o Decimal(n) \o <<CR, LF>> \o payload \o <<CR, LF>>

ClaimPayloads == {<<>>, <<"a">>, <<"a", " ">>, <<"a", LF, "b">>}

\* C12 (as claimed): decoding a bulk string whose declared length n differs
\* from the number of payload bytes before the terminator does not succeed:
\* no BulkString is returned for it.
C12_LengthFidelity ==
    \A n \in 0..3, payload \in ClaimPayloads :
        (/\ c_src.kind = "bytes" /\ c_src.bytes = BulkWire(n, payload)
         /\ n # Len(payload) /\ Decoded) =>
            c_pc # "ok"

\* an array on the wire, as the protocol frames it: the header with the
\* element count, then the elements one after the other
RECURSIVE FrameWire(_)
FrameWire(frame) ==
    CASE frame.type = "SimpleString" -> <<"+">> \o frame.val \o <<CR, LF>>
      [] frame.type = "Integer" -> <<":">> \o Decimal(frame.val) \o <<CR, LF>>
      [] frame.type = "BulkString" -> BulkWire(Len(frame.val), frame.val)
      [] frame.type = "Array" ->
            LET RECURSIVE Elems(_)
                Elems(es) == IF es = <<>> THEN <<>>
                             ELSE FrameWire(Head(es)) \o Elems(Tail(es))
            IN  <<"*">> \o Decimal(Len(frame.elems)) \o <<CR, LF>>
                \o Elems(frame.elems)

\* arrays of up to two elements, one of them nested
ClaimArrays ==
    LET leaf == {SimpleString(<<"a">>), Integer(1), BulkString(<<"a">>)}
        flat == {Array(<<>>)} \cup {Array(<<e>>) : e \in leaf}
                \cup {Array(<<e, f>>) : e, f \in leaf}
    IN  flat \cup {Array(<<e>>) : e \in flat}
             \cup {Array(<<e, f>>) : e \in flat, f \in leaf}

\* C18 (as claimed): an array header with element count n is decoded to an
\* Array of exactly its n elements in arrival order, an element that is an
\* array being one element holding its own elements; n = 0 yields the empty
\* array and reads nothing after the header.
C18_ArrayDecoding ==
    /\ \A frame \in ClaimArrays :
         (c_src.kind = "bytes" /\ c_src.bytes = FrameWire(frame) /\ Decoded) =>
            (c_pc = "ok" /\ c_out = frame)
    /\ \A l \in WireLines :
         (/\ c_src.kind = "bytes"
          /\ c_src.bytes = FrameWire(Array(<<>>)) \o l /\ Decoded) =>
            (c_pc = "ok" /\ c_out = Array(<<>>) /\ c_wire = l)

\* streams on which the peer closes inside a frame: a marker and text
\* without the terminator, a bulk-string header without its payload line,
\* an array header with fewer elements than it declares
PartialStreams ==
    {<<"+", "a">>,
     <<"$", "1", CR, LF>>, <<"$", "0", CR, LF>>,
     <<"*", "1", CR, LF>>, <<"*", "2", CR, LF, "+", "a", CR, LF>>,
     <<"*", "1", CR, LF, "$", "0", CR, LF>>}

\* C19 (as claimed): when the peer closes inside a frame the decoder does
\* not return a frame.
C19_EofInsideFrame ==
    (c_src.kind = "bytes" /\ c_src.bytes \in PartialStreams /\ Decoded) =>
        c_pc # "ok"

\* requests that start with a bulk string and are no valid invocation: an
\* unknown command; ECHO, GET, SET, INFO without an argument or with one of
\* the wrong type; SET with the expiry option (PX in the command table, px
\* as the code spells it) and no or a non-numeric millisecond value
BadInvocations ==
    {Cmd("nope", <<>>),
     Cmd("echo", <<>>), CmdInt("echo"), Cmd("get", <<>>), CmdInt("get"),
     Cmd("set", <<"k1">>), CmdInt("set"), Cmd("info", <<>>), CmdInt("info"),
     Array(<<BulkString("set"), BulkString("k1"), Integer(1)>>),
     Cmd("set", <<"k1", "a", "px">>), Cmd("set", <<"k1", "a", "px", "x">>),
     Cmd("set", <<"k1", "a", "PX">>), Cmd("set", <<"k1", "a", "PX", "x">>)}

\* C13 (as claimed): a session that has decoded such a request has ended,
\* by an error or a panic, without a reply to write and without a store
\* operation; no such request is ever the SET that wrote an entry.
C13_FailedDispatch ==
    /\ \A s \in Sessions :
         cur[s].frame \in BadInvocations =>
            /\ pc[s] = "closed"
            /\ result[s] \in {"dispatch", "panic"}
            /\ reply[s] = NoReply /\ op[s] = NoOp
    /\ \A k \in Keys :
         lastSet[k].seq > 0 => lastSet[k].frame \notin BadInvocations

\* the snapshot invoke_psync sends
rdb ==
    <<82, 69, 68, 73, 83, 48, 48, 49, 49, 250, 9, 114, 101, 100, 105, 115,
      45, 118, 101, 114, 5, 55, 46, 50, 46, 48, 250, 10, 114, 101, 100,
      105, 115, 45, 98, 105, 116, 115, 192, 64, 250, 5, 99, 116, 105, 109,
      101, 194, 109, 8, 188, 101, 250, 8, 117, 115, 101, 100, 45, 109, 101,
      109, 194, 176, 196, 16, 0, 250, 8, 97, 111, 102, 45, 98, 97, 115,
      101, 192, 0, 255, 240, 110, 59, 254, 192, 255, 90, 162>>

\* invoke_psync: the status line by send_simple_string, then the header
\* "$<rdb.len()>\r\n" and the snapshot bytes, written with no terminator
invoke_psync ==
    [status  |-> send_simple_string(
                   "FULLRESYNC 8371b4fb1155b71f4a04d3e1bc3e18c4a990aeeb 0"),
     header  |-> <<"$">> \o Decimal(Len(rdb)) \o <<CR, LF>>,
     payload |-> rdb]

\* the PSYNC request a replica sends, and the spelling the dispatcher's
\* other commands have
PsyncRequests == {Cmd("PSYNC", <<"?", "-1">>), Cmd("psync", <<"?", "-1">>)}

\* C14 (as claimed): a session that has decoded a PSYNC request answers it
\* with the full-resync reply: the status line with the replication id and
\* offset of INFO replication, the length header of the snapshot, and the
\* snapshot bytes with nothing after them.
C14_FullResyncFraming ==
    \A s \in Sessions :
        cur[s].frame \in PsyncRequests =>
            /\ pc[s] = "write"
            /\ reply[s] = invoke_psync

\* the INFO request with the one section that is answered
InfoRequest == Cmd("info", <<"replication">>)

\* C15: every INFO replication reply is the bulk string with role:slave
\* when the process was started with a primary to replicate and role:master
\* otherwise, followed by the fixed replication id and offset 0, whichever
\* session asks, whatever the store holds and wherever the handshake stands.
C15_InfoRoleStatic ==
    \A s \in Sessions :
        cur[s].frame = InfoRequest =>
            /\ pc[s] = "write"
            /\ reply[s].wire = "$"
            /\ reply[s].text =
                 IF replica_of
                 THEN "role:slave\r\nmaster_replid:8371b4fb1155b71f4a04d3e1bc3e18c4a990aeeb\r\nmaster_repl_offset:0"
                 ELSE "role:master\r\nmaster_replid:8371b4fb1155b71f4a04d3e1bc3e18c4a990aeeb\r\nmaster_repl_offset:0"

\* C15 witness: a replica whose handshake is over answers INFO replication
\* with role:slave while an entry written by a SET is in the store
C15_Witness ==
    /\ replica_of /\ hs_pc = "ok"
    /\ \E k \in Keys : store[k].some
    /\ \E s \in Sessions :
         /\ cur[s].frame = InfoRequest /\ pc[s] = "write"
         /\ reply[s] = send_bulk_string(InfoText("slave"))

\* a frame of the shape a request has: an Array whose first element is a
\* BulkString
IsRequestShape(frame) ==
    /\ frame.type = "Array" /\ Len(frame.elems) > 0
    /\ frame.elems[1].type = "BulkString"

\* C16 (as claimed): a session that has decoded a frame of any other shape
\* has terminated with an error; it is not back at reading the next frame.
C16_FrameShapeRequired ==
    \A s \in Sessions :
        (cur[s].frame # NoFrame /\ ~IsRequestShape(cur[s].frame)) =>
            /\ pc[s] = "closed"
            /\ result[s] = "dispatch"

\* a SET request whose third argument is the option token PX, followed by
\* a numeric millisecond count
CarriesExpiry(frame) ==
    /\ IsRequestShape(frame) /\ frame.elems[1].val = "set"
    /\ Len(frame.elems) = 5
    /\ \A i \in 2..5 : frame.elems[i].type = "BulkString"
    /\ frame.elems[4].val = "PX"
    /\ ParseMillis(frame.elems[5].val).some

\* C17 (as claimed): a session serving SET k v PX m holds the value with
\* expiry now + m, now being the instant the SET was taken; and no entry
\* written by such a SET is in the store without an expiry.
C17_ExpiryOptionToken ==
    /\ \A s \in Sessions :
         CarriesExpiry(cur[s].frame) =>
            /\ op[s].kind = "set"
            /\ op[s].value.expiry =
                 Some(op[s].t + ParseMillis(cur[s].frame.elems[5].val).v)
    /\ \A k \in Keys :
         (lastSet[k].seq > 0 /\ CarriesExpiry(lastSet[k].frame)) =>
            store[k].v.expiry.some

\* C20: no step removes an entry from the store, and a step that changes
\* the entry of a key k is the insert of a session serving SET k, which
\* puts that SET's value there, goes on to reply +OK and leaves the entry
\* of every other key as it was; so GET, PING, ECHO, INFO, REPLCONF and
\* PSYNC change nothing, and an expired entry stays until a SET of its key.
C20_StoreFrame ==
    [][\A k \in Keys :
         /\ store[k].some => store'[k].some
         /\ store'[k] # store[k] =>
              \E s \in Sessions :
                 /\ pc[s] = "lock" /\ pc'[s] = "write"
                 /\ cur[s].frame.elems[1] = BulkString("set")
                 /\ cur[s].frame.elems[2] = BulkString(k)
                 /\ store'[k] = Some(op[s].value)
                 /\ reply'[s] = send_simple_string("OK")
                 /\ \A j \in Keys \ {k} : store'[j] = store[j]]_vars

\* C20 witness: k1 was set with an expiry that has passed, k2 was set after
\* it, and a GET of k1 is answered with the null bulk string while the
\* expired entry of k1 is still in the store
C20_Witness ==
    /\ store["k1"].some /\ store["k1"].v.expiry.some
    /\ store["k1"].v.expiry.v <= now
    /\ store["k2"].some /\ lastSet["k2"].seq > lastSet["k1"].seq
    /\ \E s \in Sessions :
         /\ pc[s] = "write" /\ cur[s].frame = Cmd("get", <<"k1">>)
         /\ reply[s] = send_null

\* C21 (as claimed): a replica's handshake against a primary running the
\* same program goes through: the primary's session recognises every
\* request master_handshake sends and does not end on one, every reply the
\* replica takes is the simple string its step waits for, and unless a
\* write has failed on the way or the primary's process has ended the
\* replica never finds the connection closed.
C21_SelfCompatible ==
    /\ p_result \notin {"dispatch", "panic"}
    /\ \A i \in 1..Len(r_replies) :
         \/ r_replies[i] = SimpleString(HandshakeExpected(i))
         \/ r_replies[i] = Eof /\ (p_result = "write" \/ main_pc = "exited")

====
